---- MODULE Spec2Model ----
(***************************************************************************)
(* Model of tx (src/tx.go): a command-line tool that builds, signs,        *)
(* prints and optionally submits one Ripple payment transaction.           *)
(*                                                                         *)
(* One invocation of the program is a record ("run"): the parsed flags,    *)
(* the position in main's call chain (pc), the package variable key, the   *)
(* payment being built, the locals that live across steps, standard        *)
(* output, the exit status and the list of library calls made so far.      *)
(* Each function of the source is an operator from a run (and the outcome  *)
(* of the fallible library calls it makes) to the run after it.            *)
(***************************************************************************)
EXTENDS Integers, Sequences, FiniteSets, TLC

VARIABLES run, twin

vars == <<run, twin>>

----------------------------------------------------------------------------
(* Bounds of the model *)

\* --sequence ranges over -1..MaxSeq
MaxSeq == 1

----------------------------------------------------------------------------
(* Program constants *)

\* cli.IntFlag{Name: "fee,f", Value: 10}
DefaultFee == 10
\* data.TxNoDirectRipple, data.TxPartialPayment, data.TxLimitQuality
TxNoDirectRipple == 65536
TxPartialPayment == 131072
TxLimitQuality == 262144
\* uint32 is kept as two 16-bit halves; Half = 2^16, MaxInt31 = 2^31 - 1
Half == 65536
MaxInt31 == 2147483647

----------------------------------------------------------------------------
(* Values *)

\* uint32(n) for a Go int n, as the halves of its low 32 bits
\* (two's complement for n < 0).
Uint32(n) ==
    IF n >= 0
    THEN [hi |-> (n \div Half) % Half, lo |-> n % Half]
    ELSE LET m == (n + MaxInt31) + 1
         IN  [hi |-> (m \div Half) + (Half \div 2), lo |-> m % Half]

\* The zero value of a uint32 field.
ZeroU32 == [hi |-> 0, lo |-> 0]

\* a | b on naturals, bit by bit.
RECURSIVE BitOr(_, _)
BitOr(a, b) ==
    IF a = 0 THEN b
    ELSE IF b = 0 THEN a
    ELSE (IF a % 2 = 1 \/ b % 2 = 1 THEN 1 ELSE 0) + 2 * BitOr(a \div 2, b \div 2)

\* The text of an int flag, as GlobalString returns it (never empty).
IntFlagString(n) == ToString(n)

----------------------------------------------------------------------------
(* The command line *)

GoodSeed == "shHM53KPZ87Gwdqarm1bAmPeXg8Tn"
Seeds == {"", "sBadChecksum", GoodSeed}
GoodDest == "rrrrrrrrrrrrrrrrrrrrrhoLvTp"
Dests == {"", "rBadAddress", GoodDest}
Amounts == {"", "abc", "1000000"}
SendMaxes == {"", "abc", "5/USD/rrrrrrrrrrrrrrrrrrrrBZbvji"}
\* --paths, already split at the commas; <<>> is the empty string
PathArgs == {<<>>, <<"XRP">>, <<"XRP", "?">>}
Invoices == {"", "inv"}
Tags == {0, 7}
LastLedgers == {0, 5}

Flags ==
    [seed : Seeds, fee : {DefaultFee}, sequence : (0 - 1)..MaxSeq,
     lastledger : LastLedgers,
     submit : BOOLEAN, binary : BOOLEAN, json : BOOLEAN,
     dest : Dests, amount : Amounts, tag : Tags, invoice : Invoices,
     paths : PathArgs, sendmax : SendMaxes,
     nodirect : BOOLEAN, partial : BOOLEAN, limit : BOOLEAN]

----------------------------------------------------------------------------
(* The library's parsers and constructors, on the command lines above.     *)
(* A result is <<value>>, or <<>> for an error.                            *)

\* crypto.NewRippleHashCheck(s, crypto.RIPPLE_FAMILY_SEED): the decoded seed
NewRippleHashCheck(s) ==
    IF s = GoodSeed THEN <<[family |-> "seed", payload |-> s]>> ELSE <<>>

\* crypto.GenerateRootDeterministicKey(seed.Payload())
GenerateRootDeterministicKey(payload) == [root |-> payload]

\* data.NewAccountFromAddress(s)
NewAccountFromAddress(s) ==
    IF s = GoodDest THEN <<"ACCOUNT_ZERO">> ELSE <<>>

ZeroAmount == [native |-> FALSE, num |-> 0, currency |-> "", issuer |-> ""]

\* data.NewAmount(s)
NewAmount(s) ==
    IF s = "1000000"
    THEN <<[native |-> TRUE, num |-> 1000000, currency |-> "XRP", issuer |-> ""]>>
    ELSE IF s = "5/USD/rrrrrrrrrrrrrrrrrrrrBZbvji"
    THEN <<[native |-> FALSE, num |-> 5, currency |-> "USD", issuer |-> "ACCOUNT_ONE"]>>
    ELSE <<>>

\* data.NewPath(s)
NewPath(s) ==
    IF s = "XRP" THEN <<[steps |-> <<[currency |-> "XRP"]>>]>> ELSE <<>>

\* key.GenerateAccountKey(sequence), key.GenerateAccountId(sequence),
\* priv.PublicAccountKey(): the account family member at an index
GenerateAccountKey(k, sequence) == [kind |-> "private", root |-> k.root, index |-> sequence]
GenerateAccountId(k, sequence) == [kind |-> "id", root |-> k.root, index |-> sequence]
PublicAccountKey(priv) == [kind |-> "public", root |-> priv.root, index |-> priv.index]

\* data.NewNativeValue(n)
NewNativeValue(n) == n

----------------------------------------------------------------------------
(* A run *)

ZeroPayment ==
    [TransactionType |-> "", Account |-> <<>>, Sequence |-> ZeroU32, Fee |-> 0,
     SigningPubKey |-> <<>>, TxnSignature |-> <<>>, LastLedgerSequence |-> <<>>,
     Flags |-> <<>>, Destination |-> "", Amount |-> ZeroAmount, SendMax |-> <<>>,
     Paths |-> <<>>, DestinationTag |-> <<>>, InvoiceID |-> <<>>]

\* What a signature covers: every field but the signature itself.
SigningFields(p) == [p EXCEPT !.TxnSignature = <<>>]

\* data.Sign(tx, priv): the signature of the transaction as it stands
DataSign(p, priv) ==
    [p EXCEPT !.TxnSignature = <<[by |-> <<priv>>, over |-> <<SigningFields(p)>>]>>]

\* &data.VariableLength{}: a signature field with nothing in it yet
EmptySignature == [by |-> <<>>, over |-> <<>>]

\* A line (or a write) on standard output: what it is, the transaction it
\* shows, if any, and its text otherwise.
Line(kind, tx, text) == [kind |-> kind, tx |-> tx, text |-> text]

\* The command line with every flag at its default.
DefaultFlags ==
    [seed |-> "", fee |-> DefaultFee, sequence |-> 0, lastledger |-> 0,
     submit |-> FALSE, binary |-> FALSE, json |-> FALSE,
     dest |-> "", amount |-> "", tag |-> 0, invoice |-> "",
     paths |-> <<>>, sendmax |-> "",
     nodirect |-> FALSE, partial |-> FALSE, limit |-> FALSE]

\* The state of main before cli's Before hook: nothing parsed but the flags.
\* priv is sign's local priv, raw is payment's locals hash and raw (both are
\* encodings of the transaction as it stood at data.Raw).
NewRun(f) ==
    [flags |-> f, pc |-> "common", key |-> <<>>, payment |-> ZeroPayment,
     priv |-> <<>>, raw |-> <<>>, stdout |-> <<>>, exit |-> 0 - 1, calls |-> <<>>]

\* A run that never starts (the second run of a specification with one).
NoRun == [NewRun(DefaultFlags) EXCEPT !.pc = "none"]

Println(r, line) == [r EXCEPT !.stdout = Append(@, line)]
Called(r, name) == [r EXCEPT !.calls = Append(@, name)]

\* os.Exit(code)
Exit(r, code) == [r EXCEPT !.pc = "exit", !.exit = code]

\* checkErr(err) with err != nil: print the error and exit 1
checkErr(r, err) == Exit(Println(r, Line("error", <<>>, err)), 1)

----------------------------------------------------------------------------
(* The functions of tx.go.  o is the outcome of the library calls of the    *)
(* step that can fail on any input: "ok", or the name of the call that     *)
(* returns an error.                                                       *)

\* parseSeed(s): the run after it, with key set unless it exited
parseSeed(r, s, o) ==
    LET r1 == Called(r, "NewRippleHashCheck")
        seed == NewRippleHashCheck(s)
    IN  IF seed = <<>> THEN checkErr(r1, "bad seed")
        ELSE LET r2 == Called(r1, "GenerateRootDeterministicKey")
             IN  IF o = "GenerateRootDeterministicKey"
                 THEN checkErr(r2, o)
                 ELSE [r2 EXCEPT !.key = <<GenerateRootDeterministicKey(seed[1].payload)>>]

\* common(c) without the check of --sequence
commonNoSequenceCheck(r, o) ==
    IF r.flags.seed = ""
    THEN Exit(Println(r, Line("usage", <<>>, "")), 1)
    ELSE LET r1 == parseSeed(r, r.flags.seed, o)
         IN  IF r1.pc = "exit" THEN r1 ELSE [r1 EXCEPT !.pc = "payment"]

\* common(c): the Before hook
common(r, o) ==
    IF r.flags.seed = ""
    THEN Exit(Println(r, Line("usage", <<>>, "")), 1)
    ELSE IF r.flags.sequence = 0
    THEN Exit(Println(r, Line("usage", <<>>, "")), 1)
    ELSE LET r1 == parseSeed(r, r.flags.seed, o)
         IN  IF r1.pc = "exit" THEN r1 ELSE [r1 EXCEPT !.pc = "payment"]

CommonOutcomes == {"ok", "GenerateRootDeterministicKey"}

\* parseAccount(s): the run after it and the account, <<>> if it exited
parseAccount(r, s) ==
    LET r1 == Called(r, "NewAccountFromAddress")
        account == NewAccountFromAddress(s)
    IN  IF account = <<>>
        THEN [run |-> checkErr(r1, "bad account"), val |-> <<>>]
        ELSE [run |-> r1, val |-> account]

\* parseAmount(s)
parseAmount(r, s) ==
    LET r1 == Called(r, "NewAmount")
        amount == NewAmount(s)
    IN  IF amount = <<>>
        THEN [run |-> checkErr(r1, "bad amount"), val |-> <<>>]
        ELSE [run |-> r1, val |-> amount]

\* The loop of parsePaths from segment i on, ps being the paths so far.
RECURSIVE parsePathsFrom(_, _, _, _)
parsePathsFrom(r, segs, i, ps) ==
    IF i > Len(segs) THEN [run |-> r, val |-> <<ps>>]
    ELSE LET r1 == Called(r, "NewPath")
             path == NewPath(segs[i])
         IN  IF path = <<>>
             THEN [run |-> checkErr(r1, "bad path"), val |-> <<>>]
             ELSE parsePathsFrom(r1, segs, i + 1, Append(ps, path[1]))

\* parsePaths(s), s split at the commas
parsePaths(r, segs) == parsePathsFrom(r, segs, 1, <<>>)

\* The Flags mask with partial assigned (=) where the code ORs it in (|)
paymentFlagsAssign(f) ==
    LET m0 == 0
        m1 == IF f.nodirect THEN BitOr(m0, TxNoDirectRipple) ELSE m0
        m2 == IF f.partial THEN TxPartialPayment ELSE m1
        m3 == IF f.limit THEN BitOr(m2, TxLimitQuality) ELSE m2
    IN  m3

\* payment(c), lines 112-121: the Flags mask
paymentFlags(f) ==
    LET m0 == 0
        m1 == IF f.nodirect THEN BitOr(m0, TxNoDirectRipple) ELSE m0
        m2 == IF f.partial THEN BitOr(m1, TxPartialPayment) ELSE m1
        m3 == IF f.limit THEN BitOr(m2, TxLimitQuality) ELSE m2
    IN  m3

\* The payment record with --tag and --invoice read into it
newPaymentTagged(f, destination, amount) ==
    [ZeroPayment EXCEPT !.Destination = destination, !.Amount = amount,
                        !.TransactionType = "Payment",
                        !.DestinationTag = IF f.tag # 0 THEN <<Uint32(f.tag)>> ELSE <<>>,
                        !.InvoiceID = IF f.invoice # "" THEN <<f.invoice>> ELSE <<>>]

\* payment(c), lines 98-102: the payment record as first constructed
newPayment(f, destination, amount) ==
    [ZeroPayment EXCEPT !.Destination = destination, !.Amount = amount,
                        !.TransactionType = "Payment"]

\* payment(c), lines 89-121: validate, parse and build, up to the call of sign
payment(r) ==
    LET f == r.flags IN
    IF f.dest = "" \/ f.amount = "" \/ r.key = <<>>
    THEN Exit(Println(r, Line("required", <<>>, "Destination, amount, and seed are required")), 1)
    ELSE
    LET d == parseAccount(r, f.dest) IN
    IF d.run.pc = "exit" THEN d.run ELSE
    LET a == parseAmount(d.run, f.amount) IN
    IF a.run.pc = "exit" THEN a.run ELSE
    LET r1 == [a.run EXCEPT !.payment = newPayment(f, d.val[1], a.val[1])]
        ps == IF f.paths # <<>> THEN parsePaths(r1, f.paths)
              ELSE [run |-> r1, val |-> <<>>] IN
    IF ps.run.pc = "exit" THEN ps.run ELSE
    LET r2 == [ps.run EXCEPT !.payment.Paths = ps.val]
        sm == IF f.sendmax # "" THEN parseAmount(r2, f.sendmax)
              ELSE [run |-> r2, val |-> <<>>] IN
    IF sm.run.pc = "exit" THEN sm.run ELSE
    [sm.run EXCEPT !.payment.SendMax = sm.val,
                   !.payment.Flags = <<paymentFlags(f)>>,
                   !.pc = "sign"]

\* sign(c, tx, sequence), lines 52-75: derive the keys and fill in the envelope
sign(r, sequence, o) ==
    LET f == r.flags
        k == r.key[1]
        r1 == Called(r, "GenerateAccountKey") IN
    IF o = "GenerateAccountKey" THEN checkErr(r1, o) ELSE
    LET priv == GenerateAccountKey(k, sequence)
        r2 == Called(r1, "GenerateAccountId") IN
    IF o = "GenerateAccountId" THEN checkErr(r2, o) ELSE
    LET id == GenerateAccountId(k, sequence)
        r3 == Called(r2, "PublicAccountKey") IN
    IF o = "PublicAccountKey" THEN checkErr(r3, o) ELSE
    LET pub == PublicAccountKey(priv)
        r4 == [r3 EXCEPT !.priv = <<priv>>,
                         !.payment.Sequence = Uint32(f.sequence),
                         !.payment.LastLedgerSequence =
                             IF f.lastledger > 0 THEN <<Uint32(f.lastledger)>> ELSE @,
                         !.payment.Flags = IF @ = <<>> THEN <<0>> ELSE @,
                         !.payment.Account = <<id>>,
                         !.payment.SigningPubKey = <<pub>>] IN
    IF IntFlagString(f.fee) # "" /\ o = "NewNativeValue"
    THEN checkErr(Called(r4, "NewNativeValue"), o) ELSE
    LET r5 == IF IntFlagString(f.fee) # ""
              THEN [Called(r4, "NewNativeValue") EXCEPT !.payment.Fee = NewNativeValue(f.fee)]
              ELSE r4 IN
    [r5 EXCEPT !.payment.TxnSignature = <<EmptySignature>>, !.pc = "dataSign"]

SignOutcomes == {"ok", "GenerateAccountKey", "GenerateAccountId", "PublicAccountKey", "NewNativeValue"}

\* payment(c), line 123: sign(c, payment, 0)
paymentSign(r, o) == sign(r, 0, o)

\* data.Sign called before base.Sequence is assigned
dataSignBeforeSequence(r, o) ==
    LET r1 == Called(r, "Sign") IN
    IF o = "Sign" THEN checkErr(r1, o)
    ELSE [r1 EXCEPT !.payment =
                [DataSign([@ EXCEPT !.Sequence = ZeroU32], r.priv[1])
                    EXCEPT !.Sequence = r.payment.Sequence],
                    !.pc = "raw"]

\* sign, line 76: checkErr(data.Sign(tx, priv))
dataSign(r, o) ==
    LET r1 == Called(r, "Sign") IN
    IF o = "Sign" THEN checkErr(r1, o)
    ELSE [r1 EXCEPT !.payment = DataSign(@, r.priv[1]), !.pc = "raw"]

DataSignOutcomes == {"ok", "Sign"}

\* payment(c), lines 124-125: hash, raw, err := data.Raw(payment)
raw(r, o) ==
    LET r1 == Called(r, "Raw") IN
    IF o = "Raw" THEN checkErr(r1, o)
    ELSE [r1 EXCEPT !.raw = <<r.payment>>, !.pc = "output"]

RawOutcomes == {"ok", "Raw"}

\* The output with Hash/Raw printed whenever --json is not set
outputHashUnlessJson(r, o) ==
    LET f == r.flags
        r1 == IF ~f.json
              THEN Println(r, Line("hashraw", r.raw, "")) ELSE r IN
    IF (f.json \/ ~f.binary) /\ o = "Marshal" THEN checkErr(Called(r1, "Marshal"), o) ELSE
    LET r2 == IF f.json \/ ~f.binary
              THEN Println(Called(r1, "Marshal"), Line("json", <<r1.payment>>, "")) ELSE r1
        r3 == IF f.binary THEN Println(r2, Line("binary", r2.raw, "")) ELSE r2 IN
    [r3 EXCEPT !.pc = IF f.submit THEN "submitTx" ELSE "return"]

\* payment(c), lines 127-144: print, then submit or return
output(r, o) ==
    LET f == r.flags
        r1 == IF ~f.json /\ ~f.binary
              THEN Println(r, Line("hashraw", r.raw, "")) ELSE r IN
    IF (f.json \/ ~f.binary) /\ o = "Marshal" THEN checkErr(Called(r1, "Marshal"), o) ELSE
    LET r2 == IF f.json \/ ~f.binary
              THEN Println(Called(r1, "Marshal"), Line("json", <<r1.payment>>, "")) ELSE r1
        r3 == IF f.binary THEN Println(r2, Line("binary", r2.raw, "")) ELSE r2 IN
    [r3 EXCEPT !.pc = IF f.submit THEN "submitTx" ELSE "return"]

OutputOutcomes == {"ok", "Marshal"}

\* submitTx(tx), lines 79-80: websockets.NewRemote is called; the run is
\* blocked in it until it returns (the code sets no timeout)
submitTx(r) == [Called(r, "NewRemote") EXCEPT !.pc = "NewRemote"]

\* NewRemote returns, a second connection being opened when the first fails
newRemoteReturnRetryOnce(r, o) ==
    IF o = "NewRemote" THEN checkErr(Called(r, "NewRemote"), o)
    ELSE [Called(Called(r, "Run"), "Submit") EXCEPT !.pc = "Submit"]

\* submitTx(tx), lines 80-83: websockets.NewRemote returns; on an error exit,
\* else start the reader and send the request
newRemoteReturn(r, o) ==
    IF o = "NewRemote" THEN checkErr(r, o)
    ELSE [Called(Called(r, "Run"), "Submit") EXCEPT !.pc = "Submit"]

NewRemoteOutcomes == {"ok", "NewRemote"}

\* r.Submit(tx) returns, an engine result other than tesSUCCESS being
\* treated as a failure
submitReturnRejectFails(r, o) ==
    IF o = "Submit" THEN checkErr(r, o)
    ELSE Exit(Println(r, Line("result", <<>>, o)), IF o = "tesSUCCESS" THEN 0 ELSE 1)

\* submitTx(tx), lines 83-86: r.Submit(tx) returns; o is the error or the
\* engine result
submitReturn(r, o) ==
    IF o = "Submit" THEN checkErr(r, o)
    ELSE Exit(Println(r, Line("result", <<>>, o)), 0)

SubmitOutcomes == {"tesSUCCESS", "tecPATH_DRY", "Submit"}

\* payment returns, app.Run returns, main returns: exit status 0
mainReturn(r) == Exit(r, 0)

----------------------------------------------------------------------------
(* One invocation *)

Init ==
    /\ run \in {NewRun(f) : f \in Flags}
    /\ twin = NoRun

Common ==
    /\ run.pc = "common"
    /\ \E o \in CommonOutcomes : run' = common(run, o)
    /\ UNCHANGED twin

Payment ==
    /\ run.pc = "payment"
    /\ run' = payment(run)
    /\ UNCHANGED twin

Sign ==
    /\ run.pc = "sign"
    /\ \E o \in SignOutcomes : run' = paymentSign(run, o)
    /\ UNCHANGED twin

DataSignCall ==
    /\ run.pc = "dataSign"
    /\ \E o \in DataSignOutcomes : run' = dataSign(run, o)
    /\ UNCHANGED twin

Raw ==
    /\ run.pc = "raw"
    /\ \E o \in RawOutcomes : run' = raw(run, o)
    /\ UNCHANGED twin

Output ==
    /\ run.pc = "output"
    /\ \E o \in OutputOutcomes : run' = output(run, o)
    /\ UNCHANGED twin

SubmitTx ==
    /\ run.pc = "submitTx"
    /\ run' = submitTx(run)
    /\ UNCHANGED twin

\* The endpoint completes or refuses the connection: NewRemote returns.
NewRemoteReturn ==
    /\ run.pc = "NewRemote"
    /\ \E o \in NewRemoteOutcomes : run' = newRemoteReturn(run, o)
    /\ UNCHANGED twin

\* The network answers the request: r.Submit returns.
SubmitReturn ==
    /\ run.pc = "Submit"
    /\ \E o \in SubmitOutcomes : run' = submitReturn(run, o)
    /\ UNCHANGED twin

MainReturn ==
    /\ run.pc = "return"
    /\ run' = mainReturn(run)
    /\ UNCHANGED twin

\* The steps the program takes on its own.
Local == Common \/ Payment \/ Sign \/ DataSignCall \/ Raw \/ Output \/ SubmitTx \/ MainReturn

\* The steps that wait for the network.
Network == NewRemoteReturn \/ SubmitReturn

Next == Local \/ Network

Spec == Init /\ [][Next]_vars

\* The same, the program taking every step it can take on its own; nothing
\* makes the network answer.
FairSpec == Init /\ [][Next]_vars /\ WF_vars(Local)

----------------------------------------------------------------------------
(* Two invocations side by side, given the same outcomes of the library    *)
(* calls and of the network.                                               *)

\* The outcomes the step at pc can have.
OutcomesAt(pc) ==
    CASE pc = "common" -> CommonOutcomes
      [] pc = "payment" -> {"ok"}
      [] pc = "sign" -> SignOutcomes
      [] pc = "dataSign" -> DataSignOutcomes
      [] pc = "raw" -> RawOutcomes
      [] pc = "output" -> OutputOutcomes
      [] pc = "submitTx" -> {"ok"}
      [] pc = "NewRemote" -> NewRemoteOutcomes
      [] pc = "Submit" -> SubmitOutcomes
      [] pc = "return" -> {"ok"}
      [] OTHER -> {}

\* The step of r at its pc with outcome o; r itself if it has none.
Step(r, o) ==
    IF o \notin OutcomesAt(r.pc) THEN r
    ELSE CASE r.pc = "common" -> common(r, o)
           [] r.pc = "payment" -> payment(r)
           [] r.pc = "sign" -> paymentSign(r, o)
           [] r.pc = "dataSign" -> dataSign(r, o)
           [] r.pc = "raw" -> raw(r, o)
           [] r.pc = "output" -> output(r, o)
           [] r.pc = "submitTx" -> submitTx(r)
           [] r.pc = "NewRemote" -> newRemoteReturn(r, o)
           [] r.pc = "Submit" -> submitReturn(r, o)
           [] r.pc = "return" -> mainReturn(r)

\* Two command lines that differ at most in --tag and --invoice: one without
\* either flag, the other with any values of them.
PairInit ==
    /\ run \in {NewRun(f) : f \in {g \in Flags : g.tag = 0 /\ g.invoice = ""}}
    /\ twin \in {NewRun([run.flags EXCEPT !.tag = t, !.invoice = i]) : t \in Tags, i \in Invoices}

PairStep ==
    \E o \in OutcomesAt(run.pc) \cup OutcomesAt(twin.pc) :
        /\ run' = Step(run, o)
        /\ twin' = Step(twin, o)

PairSpec == PairInit /\ [][PairStep]_vars

----------------------------------------------------------------------------
(* What the properties below read off a run *)

Exited(r) == r.pc = "exit"
CallCount(r, name) == Cardinality({i \in 1..Len(r.calls) : r.calls[i] = name})
LineCount(r, kind) == Cardinality({i \in 1..Len(r.stdout) : r.stdout[i].kind = kind})
Kinds(r) == [i \in 1..Len(r.stdout) |-> r.stdout[i].kind]
\* The lines that show the transaction.
TxKinds == {"hashraw", "json", "binary"}
TxLineCount(r) == Cardinality({i \in 1..Len(r.stdout) : r.stdout[i].kind \in TxKinds})
\* The lines that report a failure.
ErrorKinds == {"usage", "required", "error"}
ErrorLineCount(r) == Cardinality({i \in 1..Len(r.stdout) : r.stdout[i].kind \in ErrorKinds})
\* data.Sign has written the signature.
Signed(r) == r.payment.TxnSignature # <<>> /\ r.payment.TxnSignature[1].by # <<>>
MissingRequired(f) == f.seed = "" \/ f.sequence = 0 \/ f.dest = "" \/ f.amount = ""

----------------------------------------------------------------------------
\* A run with a required input missing never gets past the check that
\* rejects it, exits with status 1 only, and never signs, prints or submits a
\* transaction; with the seed or the sequence missing it stays in the Before
\* hook, with no library call made (the seed is not decoded).
C1_NeverPastTheCheck ==
    MissingRequired(run.flags) =>
        /\ run.pc \in {"common", "payment", "exit"}
        /\ run.exit \in {0 - 1, 1}
        /\ Exited(run) => run.exit = 1 /\ ErrorLineCount(run) = 1
        /\ ~Signed(run) /\ CallCount(run, "Sign") = 0
        /\ TxLineCount(run) = 0
        /\ CallCount(run, "NewRemote") = 0 /\ CallCount(run, "Submit") = 0
        /\ (run.flags.seed = "" \/ run.flags.sequence = 0) =>
              /\ run.pc \in {"common", "exit"}
              /\ run.calls = <<>> /\ run.key = <<>>
              /\ Exited(run) => Kinds(run) = <<"usage">>

\* C1: a run with a required input missing (--seed empty, --sequence 0,
\* --dest empty or --amount empty) terminates with exit status 1 and never
\* signs, prints or submits a transaction, whatever the other flags; with the
\* seed or the sequence missing it exits in the Before hook, before the seed
\* is decoded and before the payment command runs.
C1_MissingRequiredExits1 ==
    /\ []C1_NeverPastTheCheck
    /\ MissingRequired(run.flags) ~> (Exited(run) /\ run.exit = 1)

\* A run with a good seed and sequence and every other flag set but --dest
\* has exited with status 1 from the payment command.
C1_Witness ==
    /\ run.flags.seed = GoodSeed /\ run.flags.sequence = 1
    /\ run.flags.dest = "" /\ run.flags.amount = "1000000"
    /\ run.flags.submit /\ run.flags.json /\ run.flags.binary
    /\ Exited(run) /\ run.exit = 1 /\ run.key # <<>>
    /\ Kinds(run) = <<"required">>

\* C2: for every signed payment, the index the signing private key, the
\* signing public key and the source account id are derived at is the
\* --sequence value written to the envelope's Sequence field (stated for the
\* positive sequences, where that value is the flag's).
C2_IndexIsSequence ==
    (Signed(run) /\ run.flags.sequence > 0) =>
        /\ run.payment.Account[1].index = run.flags.sequence
        /\ run.payment.SigningPubKey[1].index = run.flags.sequence
        /\ run.payment.TxnSignature[1].by[1].index = run.flags.sequence
        /\ Uint32(run.payment.Account[1].index) = run.payment.Sequence

\* The last line on standard output.
LastLine(r) == r.stdout[Len(r.stdout)]
EngineResults == SubmitOutcomes \ {"Submit"}

\* C3: with --submit, once the transaction is signed and serialized: if the
\* submit call returned an engine result the run printed exactly one result
\* line, last, and exited with status 0, whether the engine accepted
\* (tesSUCCESS) or rejected; if opening the connection or the submit call
\* returned an error the run exited with status 1 and printed no result
\* line.  A run exits with status 0 only if it printed no error.
C3_SubmitExitStatus ==
    /\ (Exited(run) /\ CallCount(run, "NewRemote") > 0) =>
          /\ run.flags.submit /\ Signed(run) /\ run.raw # <<>>
          /\ \/ /\ run.exit = 0
                /\ CallCount(run, "Submit") = 1
                /\ LineCount(run, "result") = 1
                /\ LastLine(run).kind = "result"
                /\ LastLine(run).text \in EngineResults
                /\ ErrorLineCount(run) = 0
             \/ /\ run.exit = 1
                /\ LineCount(run, "result") = 0
                /\ LastLine(run).kind = "error"
                /\ LastLine(run).text =
                      IF CallCount(run, "Submit") = 0 THEN "NewRemote" ELSE "Submit"
    /\ LineCount(run, "result") > 0 => Exited(run) /\ run.exit = 0
    /\ Exited(run) => (run.exit = 0 <=> ErrorLineCount(run) = 0)

\* A submitted payment the engine rejected: one result line, exit status 0.
C3_Witness ==
    /\ Exited(run) /\ run.exit = 0 /\ run.flags.submit
    /\ LastLine(run) = Line("result", <<>>, "tecPATH_DRY")

\* C4 as claimed: a successful run with --json prints the JSON of the signed
\* transaction and neither the Hash/Raw text nor the raw bytes, whatever
\* --binary is (stated for the positive sequences).
C4_JsonOnly ==
    (Exited(run) /\ run.exit = 0 /\ run.flags.json /\ run.flags.sequence > 0) =>
        /\ LineCount(run, "json") = 1
        /\ LineCount(run, "hashraw") = 0
        /\ LineCount(run, "binary") = 0

\* C5 as claimed: a successful run with --binary and without --json writes
\* the raw bytes of the signed transaction and nothing else (stated for the
\* positive sequences).
C5_BinaryOnly ==
    (Exited(run) /\ run.exit = 0 /\ run.flags.binary /\ ~run.flags.json
        /\ run.flags.sequence > 0) =>
        run.stdout = <<Line("binary", <<run.payment>>, "")>>

\* C5, amended: a successful run with --binary and without --json writes the
\* raw bytes of the signed transaction, with no Hash/Raw text and no JSON,
\* and nothing else unless --submit is set: then the one engine result line
\* follows the bytes.
C5_BinaryThenResult ==
    (Exited(run) /\ run.exit = 0 /\ run.flags.binary /\ ~run.flags.json) =>
        /\ Signed(run)
        /\ run.stdout[1] = Line("binary", <<run.payment>>, "")
        /\ IF run.flags.submit
           THEN Kinds(run) = <<"binary", "result">>
           ELSE Kinds(run) = <<"binary">>

\* A successful --binary --submit run: the bytes, then the result line.
C5_Witness ==
    /\ Exited(run) /\ run.exit = 0 /\ run.flags.binary /\ ~run.flags.json
    /\ run.flags.submit /\ Kinds(run) = <<"binary", "result">>

\* The bits of the payment flags that are set on the command line.
SetBits(f) ==
    (IF f.nodirect THEN {TxNoDirectRipple} ELSE {})
        \cup (IF f.partial THEN {TxPartialPayment} ELSE {})
        \cup (IF f.limit THEN {TxLimitQuality} ELSE {})

\* The bitwise OR of a set of masks, taken in any order.
RECURSIVE OrAll(_)
OrAll(S) == IF S = {} THEN 0 ELSE LET b == CHOOSE x \in S : TRUE IN BitOr(b, OrAll(S \ {b}))

\* C6: the Flags mask of the payment is the bitwise OR of the bits of exactly
\* the flags among nodirect, partial and limit that are set (0 for none),
\* from the call of sign on: signing leaves it as built.
C6_FlagsMask ==
    run.pc \in {"sign", "dataSign", "raw", "output", "submitTx", "NewRemote", "Submit", "return"}
        \/ Signed(run)
    => /\ run.payment.Flags = <<OrAll(SetBits(run.flags))>>
       /\ \A b \in {TxNoDirectRipple, TxPartialPayment, TxLimitQuality} :
             (b \in SetBits(run.flags)) <=> ((run.payment.Flags[1] \div b) % 2 = 1)
       /\ run.payment.Flags[1] < 2 * TxLimitQuality

\* A signed payment with all three flags set.
C6_Witness ==
    /\ Signed(run) /\ run.flags.nodirect /\ run.flags.partial /\ run.flags.limit
    /\ run.payment.Flags = <<458752>>

\* C7: data.Sign is called at most once, and when it has signed, every field
\* of the payment and of the envelope has the value the command line gives
\* it and the signature covers exactly the fields as they are now (none was
\* assigned or changed after signing); nothing is serialized, printed or
\* submitted before the signature is there, and what is serialized and
\* printed is the transaction as signed.
C7_SignedOnceLast ==
    LET p == run.payment
        f == run.flags
    IN  /\ CallCount(run, "Sign") <= 1
        /\ Signed(run) =>
              /\ CallCount(run, "Sign") = 1
              /\ p.TxnSignature[1].over = <<SigningFields(p)>>
              /\ p.TransactionType = "Payment"
              /\ <<p.Destination>> = NewAccountFromAddress(f.dest)
              /\ <<p.Amount>> = NewAmount(f.amount)
              /\ IF f.paths = <<>> THEN p.Paths = <<>>
                 ELSE p.Paths # <<>> /\ Len(p.Paths[1]) = Len(f.paths)
              /\ p.SendMax = (IF f.sendmax = "" THEN <<>> ELSE NewAmount(f.sendmax))
              /\ p.Flags # <<>>
              /\ p.Account # <<>> /\ p.SigningPubKey # <<>>
              /\ p.Sequence = Uint32(f.sequence)
              /\ p.Fee = f.fee
              /\ p.LastLedgerSequence =
                    (IF f.lastledger > 0 THEN <<Uint32(f.lastledger)>> ELSE <<>>)
        /\ ~Signed(run) =>
              /\ run.raw = <<>> /\ TxLineCount(run) = 0
              /\ CallCount(run, "Raw") = 0 /\ CallCount(run, "Marshal") = 0
              /\ CallCount(run, "NewRemote") = 0 /\ CallCount(run, "Submit") = 0
        /\ run.raw \in {<<>>, <<p>>}
        /\ \A i \in 1..Len(run.stdout) :
              run.stdout[i].kind \in TxKinds => run.stdout[i].tx = <<p>>

\* A payment with paths, send-max and a last-ledger bound, signed, printed
\* and submitted.
C7_Witness ==
    /\ Signed(run) /\ Exited(run) /\ run.exit = 0 /\ run.flags.submit
    /\ run.payment.Paths # <<>> /\ run.payment.SendMax # <<>>
    /\ run.payment.LastLedgerSequence # <<>>
    /\ Kinds(run) = <<"hashraw", "json", "result">>

\* C8 as claimed: a run whose --sequence is not greater than 0 is rejected
\* before signing, so the Sequence of a signed envelope is the positive
\* integer of the command line, not wrapped around by the conversion to
\* uint32.
C8_SequencePositive ==
    Signed(run) =>
        /\ run.flags.sequence > 0
        /\ run.payment.Sequence =
              [hi |-> run.flags.sequence \div Half, lo |-> run.flags.sequence % Half]

\* C9 as claimed, for --submit: such a run has exited only if the connection
\* could not be opened or the submit call returned (stated for the positive
\* sequences).
C9_SubmitExitsOnlyByNetwork ==
    (run.flags.submit /\ Exited(run) /\ run.flags.sequence > 0) =>
        \/ LastLine(run) = Line("error", <<>>, "NewRemote")
        \/ CallCount(run, "Submit") = 1

\* How a run that has exited got there.
C9_Exits ==
    /\ CallCount(run, "NewRemote") <= 1 /\ CallCount(run, "Submit") <= 1
    /\ CallCount(run, "NewRemote") > 0 => run.flags.submit
    /\ ErrorLineCount(run) <= 1
    /\ ErrorLineCount(run) = 1 => Exited(run) /\ run.exit = 1 /\ LastLine(run).kind \in ErrorKinds
    /\ run.pc = "NewRemote" =>
          run.exit = 0 - 1 /\ CallCount(run, "NewRemote") = 1 /\ CallCount(run, "Submit") = 0
    /\ run.pc = "Submit" => run.exit = 0 - 1 /\ CallCount(run, "Submit") = 1
    /\ Exited(run) =>
          /\ run.exit \in {0, 1}
          /\ run.exit = 1 => ErrorLineCount(run) = 1
          /\ (run.exit = 0 /\ ~run.flags.submit) =>
                TxLineCount(run) >= 1 /\ CallCount(run, "NewRemote") = 0
          /\ (run.exit = 0 /\ run.flags.submit) =>
                CallCount(run, "Submit") = 1 /\ LastLine(run).kind = "result"
          /\ (run.flags.submit /\ CallCount(run, "NewRemote") = 1) =>
                \/ LastLine(run) = Line("error", <<>>, "NewRemote")
                \/ LastLine(run) = Line("error", <<>>, "Submit")
                \/ LastLine(run).kind = "result"

\* C9, amended: a run without --submit eventually exits (status 0 after the
\* output, or status 1 at the first failing stage); a run with --submit
\* either exits with status 1 at a stage that fails before the submission or
\* reaches the call that opens the connection, and from there it exits
\* exactly when that call returns an error or the submit call returns a
\* result or an error: while the connection call has not returned the run
\* stays blocked in it, with nothing submitted, and while the submit call
\* has not returned the run stays blocked in it.  Nothing runs after an
\* exit, and at most one connection is opened and one submission made.
C9_Termination ==
    /\ []C9_Exits
    /\ (~run.flags.submit) ~> Exited(run)
    /\ run.flags.submit ~> (Exited(run) \/ run.pc \in {"NewRemote", "Submit"})
    /\ [][run.pc = "NewRemote" =>
            \/ run'.pc = "NewRemote"
            \/ run'.pc = "Submit" /\ run'.exit = 0 - 1
            \/ Exited(run') /\ run'.exit = 1
                  /\ LastLine(run') = Line("error", <<>>, "NewRemote")]_vars
    /\ [][run.pc = "Submit" =>
            \/ run'.pc = "Submit"
            \/ /\ Exited(run')
               /\ LastLine(run').kind = "result" \/ LastLine(run') = Line("error", <<>>, "Submit")]_vars
    /\ [][~Exited(run)]_vars

\* A run blocked in the submit call: connected, request sent, no answer yet.
C9_Witness ==
    /\ run.pc = "Submit" /\ run.flags.submit /\ run.exit = 0 - 1
    /\ CallCount(run, "NewRemote") = 1 /\ CallCount(run, "Submit") = 1

\* A run with --tag and --invoice taken off its command line.
Forget(r) == [r EXCEPT !.flags.tag = 0, !.flags.invoice = ""]

\* C10: two runs whose command lines differ only in --tag and --invoice are,
\* step by step, the same run: the same payment record, with neither a
\* destination tag nor an invoice id, the same signed transaction, the same
\* output and the same exit status.
C10_TagInvoiceIgnored ==
    /\ Forget(run) = Forget(twin)
    /\ run.payment.DestinationTag = <<>> /\ run.payment.InvoiceID = <<>>
    /\ twin.payment.DestinationTag = <<>> /\ twin.payment.InvoiceID = <<>>

\* Two submitted payments, one with neither flag, one with both.
C10_Witness ==
    /\ run.flags.tag = 0 /\ run.flags.invoice = ""
    /\ twin.flags.tag = 7 /\ twin.flags.invoice = "inv"
    /\ Signed(run) /\ Signed(twin)
    /\ Exited(run) /\ Exited(twin) /\ run.exit = 0 /\ twin.exit = 0
    /\ LineCount(twin, "result") = 1

====
